---- MODULE Spec2Model ----
(***************************************************************************)
(* Vehiculo / Ruta status-consistency state machine of the fleet           *)
(* record-keeper (src/models.py, src/app.py).                              *)
(*                                                                         *)
(* The state is the committed content of the two tables.  Every request    *)
(* handler works on a fresh SQLAlchemy session and ends with commit or     *)
(* rollback, so one action is one handler from its first query to its      *)
(* commit, the mapper events fired by the flush included.                  *)
(***************************************************************************)
EXTENDS Integers, Sequences, FiniteSets, TLC

\* ---------------------------------------------------------------- bounds
\* vehicle ids the forms can name, and vehicles on record at one time under
\* Spec (SpecDeriva starts from any fleet over the ids)
MaxVehiculos == 2
MaxFlota == 1
\* routes on record at one time
MaxRutas == 2
\* readings of the clock
MaxTiempo == 1

\* ------------------------------------------------------ program constants
PlacaMin == 6
PlacaMax == 8

VehIds == 1..MaxVehiculos
RutaIds == 1..MaxRutas

\* None / NULL of a nullable column; also the form's 0 = 'Sin asignar'
NULL == 0

EstadosVehiculo == {"Disponible", "En Ruta", "Mantenimiento"}
EstadosRuta == {"Programada", "En curso", "Completada", "Cancelada"}

VARIABLES
    vehiculos,  \* table vehiculos: id -> [placa, estado]
    rutas,      \* table rutas: id -> [vehiculo_id, estado, fecha_inicio, fecha_fin]
    ahora,      \* the last reading datetime.utcnow() returned
    op          \* the last operation, its target and its outcome

vars == <<vehiculos, rutas, ahora, op>>

\* ------------------------------------------------------------ plate text
\* str.upper() on the characters the forms are fed with
upper_char(c) ==
    IF c = "a" THEN "A"
    ELSE IF c = "b" THEN "B"
    ELSE IF c = "c" THEN "C"
    ELSE c

upper(s) == [i \in 1..Len(s) |-> upper_char(s[i])]

RECURSIVE lstrip(_)
lstrip(s) == IF s # <<>> /\ Head(s) = " " THEN lstrip(Tail(s)) ELSE s

RECURSIVE rstrip(_)
rstrip(s) ==
    IF s # <<>> /\ s[Len(s)] = " " THEN rstrip(SubSeq(s, 1, Len(s) - 1)) ELSE s

strip(s) == rstrip(lstrip(s))

\* form.placa.data.upper().strip()
placa_upper(raw) == strip(upper(raw))

\* VehiculoForm.placa: DataRequired, Length(min=6, max=8) on the raw text
VehiculoForm_placa_valida(raw) ==
    strip(raw) # <<>> /\ Len(raw) >= PlacaMin /\ Len(raw) <= PlacaMax

\* Vehiculo.validate_placa raises ValueError
validate_placa_rechaza(value) ==
    value = <<>> \/ Len(value) < PlacaMin \/ Len(value) > PlacaMax

\* Vehiculo.validate_placa return value
validate_placa(value) == strip(upper(value))

\* The plate texts submitted through VehiculoForm
PlacasForm ==
    { <<"a", "b", "c", "1", "2", "3">>,
      <<"A", "B", "C", "1", "2", "3">>,
      <<"X", "Y", "Z", "7", "8", "9">> }

\* Plate texts with blanks around them, too short and too long: what any
\* caller can hand to the form or to the model
PlacasTexto ==
    PlacasForm \cup
    { <<" ", "a", "b", "c", "1", "2", "3", " ">>,
      <<" ", " ", "a", "b", "1", "2", " ", " ">>,
      <<" ", "X", "Y", "Z", "7", "8", "9">>,
      <<" ", " ", " ", " ", " ", " ">>,
      <<"a", "b", "c", "1", "2">>,
      <<"A", "B", "C", "1", "2", "3", "4", "5", "6">> }

\* ------------------------------------------------------------- relations
\* Vehiculo.rutas
rutas_de(rs, v) == {r \in DOMAIN rs : rs[r].vehiculo_id = v}

\* Vehiculo.tiene_rutas_activas
tiene_rutas_activas(rs, v) ==
    \E r \in rutas_de(rs, v) : rs[r].estado = "En curso"

\* query(Ruta).filter(vehiculo_id == vid, estado == 'En curso', id != rid).count()
otras_rutas_activas(rs, vid, rid) ==
    Cardinality({r \in DOMAIN rs :
        /\ rs[r].vehiculo_id = vid
        /\ rs[r].estado = "En curso"
        /\ r # rid})

\* assignment to Vehiculo.estado of a loaded vehicle
set_estado(vs, v, e) == [vs EXCEPT ![v].estado = e]

\* primary key given to a new row
nuevo_id(tabla, ids) == CHOOSE i \in ids \ DOMAIN tabla :
    \A j \in ids \ DOMAIN tabla : i <= j

sin_fila(tabla, id) == [i \in DOMAIN tabla \ {id} |-> tabla[i]]

Resultado(nombre, id, res) == [nombre |-> nombre, id |-> id, resultado |-> res]

\* the handler flashed an error / raised: nothing is committed
Falla(nombre, id) ==
    /\ op' = Resultado(nombre, id, "error")
    /\ UNCHANGED <<vehiculos, rutas, ahora>>

\* --------------------------------------------------------- mapper events
\* @event.listens_for(Ruta, 'before_update'): vs are the session's vehicles,
\* rs the rows the query sees, target the dirty route, asignado the vehicle
\* its loaded relationship target.vehiculo_asignado holds (NULL for None)
ruta_before_update(vs, rs, id, target, asignado) ==
    IF target.estado = "En curso" /\ asignado # NULL
    THEN set_estado(vs, asignado, "En Ruta")
    ELSE IF target.estado \in {"Completada", "Cancelada"} /\ asignado # NULL
    THEN IF otras_rutas_activas(rs, target.vehiculo_id, id) = 0
         THEN set_estado(vs, asignado, "Disponible")
         ELSE vs
    ELSE vs

\* @event.listens_for(Ruta, 'before_delete')
ruta_before_delete(vs, rs, id, target, asignado) ==
    IF asignado # NULL /\ target.estado = "En curso"
    THEN IF otras_rutas_activas(rs, target.vehiculo_id, id) = 0
         THEN set_estado(vs, asignado, "Disponible")
         ELSE vs
    ELSE vs

\* db.session.commit(): vs_flush holds the assignments the handler made
\* before the flush, vs_evento those plus the ones the mapper event made
\* during it.  The event writes a row of another mapper after the flush plan
\* was fixed; the unit of work resets such history at the end of the flush,
\* so whether it reaches the table is left open: either outcome is admitted.
session_commit(vs_flush, vs_evento) == {vs_flush, vs_evento}

\* ------------------------------------------------------ model operations
\* Vehiculo.cambiar_estado(nuevo_estado, validar_logica) and commit
cambiar_estado(v, nuevo_estado, validar_logica) ==
    v \in DOMAIN vehiculos /\
    IF /\ validar_logica
       /\ \/ nuevo_estado = "Disponible" /\ tiene_rutas_activas(rutas, v)
          \/ nuevo_estado = "En Ruta" /\ ~tiene_rutas_activas(rutas, v)
    THEN Falla("cambiar_estado", v)
    ELSE /\ vehiculos' = set_estado(vehiculos, v, nuevo_estado)
         /\ op' = Resultado("cambiar_estado", v, "ok")
         /\ UNCHANGED <<rutas, ahora>>

\* iniciar_ruta without the check of the assigned vehicle's estado
iniciar_ruta_sin_verificar_vehiculo(r) ==
    r \in DOMAIN rutas /\
         LET ruta == rutas[r]
             asignado == ruta.vehiculo_id
         IN IF ruta.estado # "Programada"
            THEN Falla("iniciar_ruta", r)
            ELSE \E t \in ahora..MaxTiempo :
                 /\ ahora' = t
                 /\ rutas' = [rutas EXCEPT ![r].estado = "En curso",
                                           ![r].fecha_inicio = t]
                 /\ vehiculos' = IF asignado # NULL
                                 THEN set_estado(vehiculos, asignado, "En Ruta")
                                 ELSE vehiculos
                 /\ op' = Resultado("iniciar_ruta", r, "ok")

\* Ruta.iniciar_ruta() and commit
iniciar_ruta(r) ==
    r \in DOMAIN rutas /\
         LET ruta == rutas[r]
             asignado == ruta.vehiculo_id
         IN IF ruta.estado # "Programada"
            THEN Falla("iniciar_ruta", r)
            ELSE IF asignado # NULL /\ vehiculos[asignado].estado # "Disponible"
            THEN Falla("iniciar_ruta", r)
            ELSE \E t \in ahora..MaxTiempo :
                 LET target == [ruta EXCEPT !.estado = "En curso",
                                            !.fecha_inicio = t]
                     vs1 == IF asignado # NULL
                            THEN set_estado(vehiculos, asignado, "En Ruta")
                            ELSE vehiculos
                     vs2 == ruta_before_update(vs1, rutas, r, target, asignado)
                 IN /\ ahora' = t
                    /\ rutas' = [rutas EXCEPT ![r] = target]
                    /\ vehiculos' \in session_commit(vs1, vs2)
                    /\ op' = Resultado("iniciar_ruta", r, "ok")

\* completar_ruta leaving the assigned vehicle's estado alone
completar_ruta_sin_liberar(r) ==
    r \in DOMAIN rutas /\
         LET ruta == rutas[r]
         IN IF ruta.estado # "En curso"
            THEN Falla("completar_ruta", r)
            ELSE \E t \in ahora..MaxTiempo :
                 /\ ahora' = t
                 /\ rutas' = [rutas EXCEPT ![r].estado = "Completada",
                                           ![r].fecha_fin = t]
                 /\ vehiculos' = vehiculos
                 /\ op' = Resultado("completar_ruta", r, "ok")

\* completar_ruta without the check of the route's estado
completar_ruta_sin_verificar_estado(r) ==
    r \in DOMAIN rutas /\
         LET ruta == rutas[r]
             asignado == ruta.vehiculo_id
         IN \E t \in ahora..MaxTiempo :
                 /\ ahora' = t
                 /\ rutas' = [rutas EXCEPT ![r].estado = "Completada",
                                           ![r].fecha_fin = t]
                 /\ vehiculos' = IF asignado # NULL
                                 THEN set_estado(vehiculos, asignado, "Disponible")
                                 ELSE vehiculos
                 /\ op' = Resultado("completar_ruta", r, "ok")

\* Ruta.completar_ruta() and commit
completar_ruta(r) ==
    r \in DOMAIN rutas /\
         LET ruta == rutas[r]
             asignado == ruta.vehiculo_id
         IN IF ruta.estado # "En curso"
            THEN Falla("completar_ruta", r)
            ELSE \E t \in ahora..MaxTiempo :
                 LET target == [ruta EXCEPT !.estado = "Completada",
                                            !.fecha_fin = t]
                     vs1 == IF asignado # NULL
                            THEN set_estado(vehiculos, asignado, "Disponible")
                            ELSE vehiculos
                     vs2 == ruta_before_update(vs1, rutas, r, target, asignado)
                 IN /\ ahora' = t
                    /\ rutas' = [rutas EXCEPT ![r] = target]
                    /\ vehiculos' \in session_commit(vs1, vs2)
                    /\ op' = Resultado("completar_ruta", r, "ok")

\* Ruta.cancelar_ruta() and commit
cancelar_ruta(r) ==
    r \in DOMAIN rutas /\
         LET ruta == rutas[r]
             asignado == ruta.vehiculo_id
             target == [ruta EXCEPT !.estado = "Cancelada"]
             vs1 == IF asignado # NULL /\ vehiculos[asignado].estado = "En Ruta"
                    THEN set_estado(vehiculos, asignado, "Disponible")
                    ELSE vehiculos
             vs2 == ruta_before_update(vs1, rutas, r, target, asignado)
         IN /\ rutas' = [rutas EXCEPT ![r] = target]
            /\ vehiculos' \in session_commit(vs1, vs2)
            /\ op' = Resultado("cancelar_ruta", r, "ok")
            /\ UNCHANGED ahora

\* UNIQUE on vehiculos.placa: the row id can hold placa
placa_unica(vs, id, placa) ==
    \A v \in DOMAIN vs \ {id} : vs[v].placa # placa

\* Vehiculo(placa=value, estado=estado), session.add and commit
Vehiculo(value, estado) ==
    IF validate_placa_rechaza(value)
    THEN Falla("Vehiculo", 0)
    ELSE IF ~placa_unica(vehiculos, 0, validate_placa(value))
    THEN Falla("Vehiculo", 0)
    ELSE /\ DOMAIN vehiculos # VehIds
         /\ LET id == nuevo_id(vehiculos, VehIds)
            IN /\ vehiculos' = vehiculos @@
                      (id :> [placa |-> validate_placa(value), estado |-> estado])
               /\ op' = Resultado("Vehiculo", id, "ok")
         /\ UNCHANGED <<rutas, ahora>>

\* vehiculo.placa = value on a loaded vehicle, and commit
set_placa(v, value) ==
    v \in DOMAIN vehiculos /\
    IF validate_placa_rechaza(value)
    THEN Falla("set_placa", v)
    ELSE IF ~placa_unica(vehiculos, v, validate_placa(value))
    THEN Falla("set_placa", v)
    ELSE /\ vehiculos' = [vehiculos EXCEPT ![v].placa = validate_placa(value)]
         /\ op' = Resultado("set_placa", v, "ok")
         /\ UNCHANGED <<rutas, ahora>>

\* ------------------------------------------------------ request handlers
\* nuevo_vehiculo without the query for a vehicle with the same placa
nuevo_vehiculo_sin_verificar_duplicado(placa, estado) ==
    LET p == placa_upper(placa)
    IN IF ~VehiculoForm_placa_valida(placa)
       THEN Falla("nuevo_vehiculo", 0)
       ELSE IF validate_placa_rechaza(p)
       THEN Falla("nuevo_vehiculo", 0)
       ELSE /\ DOMAIN vehiculos # VehIds
            /\ LET id == nuevo_id(vehiculos, VehIds)
               IN /\ vehiculos' = vehiculos @@
                         (id :> [placa |-> validate_placa(p), estado |-> estado])
                  /\ op' = Resultado("nuevo_vehiculo", id, "ok")
            /\ UNCHANGED <<rutas, ahora>>

\* POST /nuevo_vehiculo
nuevo_vehiculo(placa, estado) ==
    LET p == placa_upper(placa)
    IN IF ~VehiculoForm_placa_valida(placa)
       THEN Falla("nuevo_vehiculo", 0)
       ELSE IF \E v \in DOMAIN vehiculos : vehiculos[v].placa = p
       THEN Falla("nuevo_vehiculo", 0)
       ELSE IF validate_placa_rechaza(p)
       THEN Falla("nuevo_vehiculo", 0)
       ELSE /\ DOMAIN vehiculos # VehIds
            /\ LET id == nuevo_id(vehiculos, VehIds)
               IN /\ vehiculos' = vehiculos @@
                         (id :> [placa |-> validate_placa(p), estado |-> estado])
                  /\ op' = Resultado("nuevo_vehiculo", id, "ok")
            /\ UNCHANGED <<rutas, ahora>>

\* nueva_ruta without the check of the chosen vehicle's estado
nueva_ruta_sin_verificar_disponible(vehiculo_id, estado) ==
    IF vehiculo_id # 0 /\ vehiculo_id \notin DOMAIN vehiculos
    THEN Falla("nueva_ruta", 0)
    ELSE /\ DOMAIN rutas # RutaIds
         /\ LET id == nuevo_id(rutas, RutaIds)
            IN /\ rutas' = rutas @@
                      (id :> [vehiculo_id |-> IF vehiculo_id # 0
                                               THEN vehiculo_id ELSE NULL,
                              estado |-> estado,
                              fecha_inicio |-> NULL,
                              fecha_fin |-> NULL])
               /\ op' = Resultado("nueva_ruta", id, "ok")
         /\ vehiculos' = IF vehiculo_id # 0 /\ estado = "En curso"
                         THEN set_estado(vehiculos, vehiculo_id, "En Ruta")
                         ELSE vehiculos
         /\ UNCHANGED ahora

\* POST /nueva_ruta
nueva_ruta(vehiculo_id, estado) ==
    IF vehiculo_id # 0 /\ vehiculo_id \notin DOMAIN vehiculos
    THEN Falla("nueva_ruta", 0)
    ELSE IF vehiculo_id # 0 /\ vehiculos[vehiculo_id].estado # "Disponible"
    THEN Falla("nueva_ruta", 0)
    ELSE /\ DOMAIN rutas # RutaIds
         /\ LET id == nuevo_id(rutas, RutaIds)
            IN /\ rutas' = rutas @@
                      (id :> [vehiculo_id |-> IF vehiculo_id # 0
                                               THEN vehiculo_id ELSE NULL,
                              estado |-> estado,
                              fecha_inicio |-> NULL,
                              fecha_fin |-> NULL])
               /\ op' = Resultado("nueva_ruta", id, "ok")
         /\ vehiculos' = IF vehiculo_id # 0 /\ estado = "En curso"
                         THEN set_estado(vehiculos, vehiculo_id, "En Ruta")
                         ELSE vehiculos
         /\ UNCHANGED ahora

\* editar_ruta marking the chosen vehicle 'En Ruta' whatever the form's estado
editar_ruta_marcando_vehiculo(id, vehiculo_id, estado) ==
    IF id \notin DOMAIN rutas
    THEN Falla("editar_ruta", id)
    ELSE IF vehiculo_id # 0 /\ vehiculo_id \notin DOMAIN vehiculos
    THEN Falla("editar_ruta", id)
    ELSE IF vehiculo_id # 0 /\
            vehiculos[vehiculo_id].estado \notin {"Disponible", "En Ruta"}
    THEN Falla("editar_ruta", id)
    ELSE LET ruta == rutas[id]
             anterior == ruta.vehiculo_id
             nuevo == IF vehiculo_id # 0 THEN vehiculo_id ELSE NULL
             vs1 == IF /\ anterior # NULL
                       /\ (nuevo = NULL \/ nuevo # anterior)
                       /\ ruta.estado = "En curso"
                    THEN set_estado(vehiculos, anterior, "Disponible")
                    ELSE vehiculos
             target == [ruta EXCEPT !.vehiculo_id = nuevo, !.estado = estado]
             vs2 == IF nuevo # NULL
                    THEN set_estado(vs1, nuevo, "En Ruta")
                    ELSE vs1
             vs3 == ruta_before_update(vs2, rutas, id, target, anterior)
         IN /\ rutas' = [rutas EXCEPT ![id] = target]
            /\ vehiculos' \in session_commit(vs2, vs3)
            /\ op' = Resultado("editar_ruta", id, "ok")
            /\ UNCHANGED ahora

\* POST /editar_ruta/<id>
editar_ruta(id, vehiculo_id, estado) ==
    IF id \notin DOMAIN rutas
    THEN Falla("editar_ruta", id)
    ELSE IF vehiculo_id # 0 /\ vehiculo_id \notin DOMAIN vehiculos
    THEN Falla("editar_ruta", id)
    ELSE IF vehiculo_id # 0 /\
            vehiculos[vehiculo_id].estado \notin {"Disponible", "En Ruta"}
    THEN Falla("editar_ruta", id)
    ELSE LET ruta == rutas[id]
             \* ruta.vehiculo_asignado as loaded before the form is applied
             anterior == ruta.vehiculo_id
             nuevo == IF vehiculo_id # 0 THEN vehiculo_id ELSE NULL
             vs1 == IF /\ anterior # NULL
                       /\ (nuevo = NULL \/ nuevo # anterior)
                       /\ ruta.estado = "En curso"
                    THEN set_estado(vehiculos, anterior, "Disponible")
                    ELSE vehiculos
             target == [ruta EXCEPT !.vehiculo_id = nuevo, !.estado = estado]
             vs2 == IF nuevo # NULL /\ estado = "En curso"
                    THEN set_estado(vs1, nuevo, "En Ruta")
                    ELSE vs1
             vs3 == ruta_before_update(vs2, rutas, id, target, anterior)
         IN /\ rutas' = [rutas EXCEPT ![id] = target]
            /\ vehiculos' \in session_commit(vs2, vs3)
            /\ op' = Resultado("editar_ruta", id, "ok")
            /\ UNCHANGED ahora

\* POST /eliminar_ruta/<id>
eliminar_ruta(id) ==
    IF id \notin DOMAIN rutas
    THEN Falla("eliminar_ruta", id)
    ELSE LET ruta == rutas[id]
             asignado == ruta.vehiculo_id
             vs1 == IF asignado # NULL /\ ruta.estado = "En curso"
                    THEN set_estado(vehiculos, asignado, "Disponible")
                    ELSE vehiculos
             vs2 == ruta_before_delete(vs1, rutas, id, ruta, asignado)
         IN /\ rutas' = sin_fila(rutas, id)
            /\ vehiculos' \in session_commit(vs1, vs2)
            /\ op' = Resultado("eliminar_ruta", id, "ok")
            /\ UNCHANGED ahora

\* POST /editar_vehiculo/<id>
editar_vehiculo(id, placa, estado) ==
    IF id \notin DOMAIN vehiculos
    THEN Falla("editar_vehiculo", id)
    ELSE LET vehiculo == vehiculos[id]
             p == placa_upper(placa)
         IN IF ~VehiculoForm_placa_valida(placa)
            THEN Falla("editar_vehiculo", id)
            ELSE IF \E v \in DOMAIN vehiculos :
                        vehiculos[v].placa = p /\ v # id
            THEN Falla("editar_vehiculo", id)
            ELSE IF /\ estado # vehiculo.estado
                    /\ estado = "Disponible"
                    /\ tiene_rutas_activas(rutas, id)
            THEN Falla("editar_vehiculo", id)
            ELSE IF validate_placa_rechaza(p)
            THEN Falla("editar_vehiculo", id)
            ELSE /\ vehiculos' = [vehiculos EXCEPT
                        ![id] = [placa |-> validate_placa(p), estado |-> estado]]
                 /\ op' = Resultado("editar_vehiculo", id, "ok")
                 /\ UNCHANGED <<rutas, ahora>>

\* eliminar_vehiculo without the check of vehiculo.rutas
eliminar_vehiculo_solo_rutas_activas(id) ==
    IF id \notin DOMAIN vehiculos
    THEN Falla("eliminar_vehiculo", id)
    ELSE IF tiene_rutas_activas(rutas, id)
    THEN Falla("eliminar_vehiculo", id)
    ELSE /\ vehiculos' = sin_fila(vehiculos, id)
         /\ rutas' = [r \in DOMAIN rutas \ rutas_de(rutas, id) |-> rutas[r]]
         /\ op' = Resultado("eliminar_vehiculo", id, "ok")
         /\ UNCHANGED ahora

\* eliminar_vehiculo checking only the routes 'En curso', on a relationship
\* without the delete cascade
eliminar_vehiculo_sin_cascada(id) ==
    IF id \notin DOMAIN vehiculos
    THEN Falla("eliminar_vehiculo", id)
    ELSE IF tiene_rutas_activas(rutas, id)
    THEN Falla("eliminar_vehiculo", id)
    ELSE /\ vehiculos' = sin_fila(vehiculos, id)
         /\ op' = Resultado("eliminar_vehiculo", id, "ok")
         /\ UNCHANGED <<rutas, ahora>>

\* POST /eliminar_vehiculo/<id>
eliminar_vehiculo(id) ==
    IF id \notin DOMAIN vehiculos
    THEN Falla("eliminar_vehiculo", id)
    ELSE IF tiene_rutas_activas(rutas, id)
    THEN Falla("eliminar_vehiculo", id)
    ELSE IF rutas_de(rutas, id) # {}
    THEN Falla("eliminar_vehiculo", id)
    ELSE /\ vehiculos' = sin_fila(vehiculos, id)
         \* cascade='all, delete-orphan' on Vehiculo.rutas
         /\ rutas' = [r \in DOMAIN rutas \ rutas_de(rutas, id) |-> rutas[r]]
         /\ op' = Resultado("eliminar_vehiculo", id, "ok")
         /\ UNCHANGED ahora

\* the two passes of validar_estados_consistentes over the vehicles
corregir_con_rutas_activas(vs, rs) ==
    [v \in DOMAIN vs |->
        IF tiene_rutas_activas(rs, v) /\ vs[v].estado # "En Ruta"
        THEN [vs[v] EXCEPT !.estado = "En Ruta"]
        ELSE vs[v]]

\* the second pass left out
corregir_en_ruta_omitida(vs, rs) == vs

\* the second pass over every vehicle, not only those 'En Ruta'
corregir_en_ruta_sin_filtro(vs, rs) ==
    [v \in DOMAIN vs |->
        IF Cardinality({r \in DOMAIN rs : rs[r].vehiculo_id = v /\
                                          rs[r].estado = "En curso"}) = 0
        THEN [vs[v] EXCEPT !.estado = "Disponible"]
        ELSE vs[v]]

\* the second pass releasing in two stages: 'En Ruta' to 'Mantenimiento' in
\* one run, 'Mantenimiento' to 'Disponible' in the next
corregir_en_ruta_en_dos_etapas(vs, rs) ==
    [v \in DOMAIN vs |->
        IF tiene_rutas_activas(rs, v) THEN vs[v]
        ELSE IF vs[v].estado = "En Ruta"
        THEN [vs[v] EXCEPT !.estado = "Mantenimiento"]
        ELSE IF vs[v].estado = "Mantenimiento"
        THEN [vs[v] EXCEPT !.estado = "Disponible"]
        ELSE vs[v]]

corregir_en_ruta(vs, rs) ==
    [v \in DOMAIN vs |->
        IF vs[v].estado = "En Ruta" /\
           Cardinality({r \in DOMAIN rs : rs[r].vehiculo_id = v /\
                                          rs[r].estado = "En curso"}) = 0
        THEN [vs[v] EXCEPT !.estado = "Disponible"]
        ELSE vs[v]]

\* POST /validar_estados, and process start
validar_estados_consistentes ==
    /\ vehiculos' = corregir_en_ruta(
                        corregir_con_rutas_activas(vehiculos, rutas), rutas)
    /\ op' = Resultado("validar_estados_consistentes", 0, "ok")
    /\ UNCHANGED <<rutas, ahora>>

\* ---------------------------------------------------------- specification
Init ==
    /\ vehiculos = <<>>
    /\ rutas = <<>>
    /\ ahora = 1
    /\ op = Resultado("inicio", 0, "ok")

Next ==
    \/ \E p \in PlacasForm, e \in EstadosVehiculo :
           nuevo_vehiculo(p, e) /\ Cardinality(DOMAIN vehiculos') <= MaxFlota
    \/ \E v \in {0} \cup VehIds, e \in EstadosRuta : nueva_ruta(v, e)
    \/ \E r \in RutaIds, v \in {0} \cup VehIds, e \in EstadosRuta :
           editar_ruta(r, v, e)
    \/ \E r \in RutaIds : eliminar_ruta(r)
    \/ \E v \in VehIds, p \in PlacasForm, e \in EstadosVehiculo :
           editar_vehiculo(v, p, e)
    \/ \E v \in VehIds : eliminar_vehiculo(v)
    \/ validar_estados_consistentes
    \/ \E v \in VehIds, e \in EstadosVehiculo, l \in BOOLEAN :
           cambiar_estado(v, e, l)
    \/ \E r \in RutaIds : iniciar_ruta(r)
    \/ \E r \in RutaIds : completar_ruta(r)
    \/ \E r \in RutaIds : cancelar_ruta(r)

Spec == Init /\ [][Next]_vars

TypeOK ==
    /\ DOMAIN vehiculos \subseteq VehIds
    /\ \A v \in DOMAIN vehiculos : vehiculos[v].estado \in EstadosVehiculo
    /\ DOMAIN rutas \subseteq RutaIds
    /\ \A r \in DOMAIN rutas :
        /\ rutas[r].estado \in EstadosRuta
        /\ rutas[r].vehiculo_id \in {NULL} \cup DOMAIN vehiculos
        /\ rutas[r].fecha_inicio \in 0..MaxTiempo
        /\ rutas[r].fecha_fin \in 0..MaxTiempo
    /\ ahora \in 1..MaxTiempo

\* ------------------------------------------- any state, then the sweep
PlacasNorm == {placa_upper(p) : p \in PlacasForm}

Flotas ==
    {vs \in UNION {[D -> [placa : PlacasNorm, estado : EstadosVehiculo]] :
                      D \in SUBSET VehIds} :
        \A a, b \in DOMAIN vs : a # b => vs[a].placa # vs[b].placa}

Recorridos(vs) ==
    UNION {[D -> [vehiculo_id : {NULL} \cup DOMAIN vs,
                  estado : EstadosRuta,
                  fecha_inicio : 0..MaxTiempo,
                  fecha_fin : 0..MaxTiempo]] : D \in SUBSET RutaIds}

\* any content of the two tables, drifted or not
InitDeriva ==
    /\ vehiculos \in Flotas
    /\ rutas \in Recorridos(vehiculos)
    /\ ahora = 1
    /\ op = Resultado("inicio", 0, "ok")

NextDeriva == validar_estados_consistentes

SpecDeriva == InitDeriva /\ [][NextDeriva]_vars

\* ------------------------------------------- the fleet and its plates alone
\* vehicles created, edited and deleted through the forms and through the
\* model, with no route on record
NextPlacas ==
    \/ \E p \in PlacasTexto, e \in EstadosVehiculo : nuevo_vehiculo(p, e)
    \/ \E v \in VehIds, p \in PlacasTexto, e \in EstadosVehiculo :
           editar_vehiculo(v, p, e)
    \/ \E v \in VehIds : eliminar_vehiculo(v)
    \/ \E p \in PlacasTexto, e \in EstadosVehiculo : Vehiculo(p, e)
    \/ \E v \in VehIds, p \in PlacasTexto : set_placa(v, p)

SpecPlacas == Init /\ [][NextPlacas]_vars

\* ------------------------------------------ the derived values of a route
SegundosPorMinuto == 60

\* None is <<>>, a value x is <<x>>
None == <<>>

\* int(x / y) for y > 0: the quotient cut towards zero
int_div(x, y) == IF x >= 0 THEN x \div y ELSE -((-x) \div y)

\* round(num / den) to the nearest integer, ties to the even one
round_div(num, den) ==
    LET n == IF den < 0 THEN -num ELSE num
        d == IF den < 0 THEN -den ELSE den
        f == n \div d
        resto == n - f * d
    IN IF 2 * resto < d THEN f
       ELSE IF 2 * resto > d THEN f + 1
       ELSE IF f % 2 = 0 THEN f ELSE f + 1

\* Ruta.duracion_real, in minutes; the fechas count seconds
duracion_real(ruta) ==
    IF ruta.fecha_inicio # NULL /\ ruta.fecha_fin # NULL
    THEN <<int_div(ruta.fecha_fin - ruta.fecha_inicio, SegundosPorMinuto)>>
    ELSE None

\* velocidad_promedio answering only for a positive duracion
velocidad_promedio_solo_positiva(ruta) ==
    LET duracion == duracion_real(ruta)
    IN IF duracion # None /\ duracion[1] > 0
       THEN <<round_div(ruta.distancia * SegundosPorMinuto * 100, duracion[1])>>
       ELSE None

\* Ruta.velocidad_promedio, in hundredths of km/h: 'if duracion:' is false
\* for None and for 0
velocidad_promedio(ruta) ==
    LET duracion == duracion_real(ruta)
    IN IF duracion # None /\ duracion[1] # 0
       THEN <<round_div(ruta.distancia * SegundosPorMinuto * 100, duracion[1])>>
       ELSE None

\* fechas in seconds and distancias in km of the routes measured
Instantes == {1, 31, 61, 62, 181}
Distancias == {1, 90}

RutasMedidas ==
    [vehiculo_id : {NULL},
     estado : {"En curso", "Completada"},
     fecha_inicio : {NULL} \cup Instantes,
     fecha_fin : {NULL} \cup Instantes,
     distancia : Distancias]

\* one route on record, with any fechas the operations can leave on it
InitDuracion ==
    /\ vehiculos = <<>>
    /\ rutas \in [{nuevo_id(<<>>, RutaIds)} -> RutasMedidas]
    /\ ahora = 1
    /\ op = Resultado("inicio", 0, "ok")

\* a reader (the route pages) asks the route for its two derived values
leer_duracion(r) ==
    /\ r \in DOMAIN rutas
    /\ op' = [nombre |-> "leer_duracion", id |-> r, resultado |-> "ok",
              duracion_real |-> duracion_real(rutas[r]),
              velocidad_promedio |-> velocidad_promedio(rutas[r])]
    /\ UNCHANGED <<vehiculos, rutas, ahora>>

NextDuracion == \E r \in RutaIds : leer_duracion(r)

SpecDuracion == InitDuracion /\ [][NextDuracion]_vars

\* ------------------------------------------------------------ properties
Terminal == {"Completada", "Cancelada"}

\* the step just taken was a call of operation nombre
Paso(nombre) == op'.nombre = nombre

\* C1: in every reachable state every vehicle is 'En Ruta' if and only if
\* one of its routes is 'En curso'
C1_EnRutaSiiRutaEnCurso ==
    \A v \in DOMAIN vehiculos :
        vehiculos[v].estado = "En Ruta" <=> tiene_rutas_activas(rutas, v)

\* C2: in every reachable state a vehicle has at most one route 'En curso'
C2_UnaRutaEnCursoPorVehiculo ==
    \A v \in DOMAIN vehiculos :
        Cardinality({r \in rutas_de(rutas, v) : rutas[r].estado = "En curso"}) <= 1

\* C3: iniciar_ruta on a route that is not 'Programada', or whose vehicle is
\* not 'Disponible', fails and leaves the route's estado and fecha_inicio and
\* the vehicle's estado as they were
C3_IniciarRutaRechazada ==
    [][Paso("iniciar_ruta") =>
        LET r == op'.id
            v == rutas[r].vehiculo_id
        IN (\/ rutas[r].estado # "Programada"
            \/ (v # NULL /\ vehiculos[v].estado # "Disponible"))
           => /\ op'.resultado = "error"
              /\ r \in DOMAIN rutas'
              /\ rutas'[r].estado = rutas[r].estado
              /\ rutas'[r].fecha_inicio = rutas[r].fecha_inicio
              /\ (v # NULL => /\ v \in DOMAIN vehiculos'
                              /\ vehiculos'[v].estado = vehiculos[v].estado)]_vars

\* C3 witness: the second of two routes of one vehicle was refused while the
\* first keeps the vehicle 'En Ruta'
C3_Testigo ==
    /\ op.nombre = "iniciar_ruta"
    /\ op.resultado = "error"
    /\ op.id \in DOMAIN rutas
    /\ rutas[op.id].estado = "Programada"
    /\ rutas[op.id].fecha_inicio = NULL
    /\ \E v \in DOMAIN vehiculos :
        /\ rutas[op.id].vehiculo_id = v
        /\ vehiculos[v].estado = "En Ruta"
        /\ \E otra \in rutas_de(rutas, v) :
            otra # op.id /\ rutas[otra].estado = "En curso"

\* C4: completar_ruta on a route 'En curso' with a vehicle makes the vehicle
\* 'Disponible' only if no other route of the vehicle is 'En curso'; with
\* another route 'En curso' the vehicle is still 'En Ruta' after the commit
C4_CompletarLiberaSoloSinOtras ==
    [][(Paso("completar_ruta") /\ op'.resultado = "ok") =>
        LET r == op'.id
            v == rutas[r].vehiculo_id
        IN v # NULL =>
            /\ (vehiculos'[v].estado = "Disponible" /\
                vehiculos[v].estado # "Disponible")
               => otras_rutas_activas(rutas, v, r) = 0
            /\ (otras_rutas_activas(rutas, v, r) > 0 /\
                vehiculos[v].estado = "En Ruta")
               => vehiculos'[v].estado = "En Ruta"]_vars

\* C5: a route that is 'Completada' or 'Cancelada' keeps that estado in every
\* step, and cancelar_ruta is accepted only from a non-terminal estado
C5_EstadoTerminalPermanece ==
    [][/\ \A r \in DOMAIN rutas \cap DOMAIN rutas' :
            rutas[r].estado \in Terminal => rutas'[r].estado = rutas[r].estado
       /\ (Paso("cancelar_ruta") /\ op'.resultado = "ok")
            => rutas[op'.id].estado \notin Terminal]_vars

\* C6: cancelar_ruta makes the vehicle 'Disponible' only when the cancelled
\* route was the one 'En curso' and no other route of the vehicle is; a
\* cancelled 'Programada' route leaves a vehicle that another route keeps
\* 'En Ruta' as it is
C6_CancelarLiberaSoloSuVehiculo ==
    [][(Paso("cancelar_ruta") /\ op'.resultado = "ok") =>
        LET r == op'.id
            v == rutas[r].vehiculo_id
        IN v # NULL =>
            /\ (vehiculos'[v].estado = "Disponible" /\
                vehiculos[v].estado # "Disponible")
               => /\ vehiculos[v].estado = "En Ruta"
                  /\ rutas[r].estado = "En curso"
                  /\ otras_rutas_activas(rutas, v, r) = 0
            /\ (/\ rutas[r].estado = "Programada"
                /\ vehiculos[v].estado = "En Ruta"
                /\ otras_rutas_activas(rutas, v, r) > 0)
               => vehiculos'[v].estado = "En Ruta"]_vars

\* C7: eliminar_ruta removes the route and makes its vehicle 'Disponible'
\* exactly when the route was 'En curso' and the vehicle has no other route
\* 'En curso'; otherwise the vehicle's estado is what it was
C7_EliminarRutaLibera ==
    [][(Paso("eliminar_ruta") /\ op'.resultado = "ok") =>
        LET r == op'.id
            v == rutas[r].vehiculo_id
        IN /\ r \notin DOMAIN rutas'
           /\ v # NULL =>
                vehiculos'[v].estado =
                    IF /\ rutas[r].estado = "En curso"
                       /\ otras_rutas_activas(rutas, v, r) = 0
                    THEN "Disponible"
                    ELSE vehiculos[v].estado]_vars

\* C8: cambiar_estado, the vehicle edit form and vehicle creation never store
\* 'Disponible' on a vehicle with a route 'En curso' nor 'En Ruta' on a
\* vehicle without one, and a rejected request leaves the vehicles as they were
C8_CambioDirectoValidado ==
    [][Paso("cambiar_estado") \/ Paso("editar_vehiculo") \/ Paso("nuevo_vehiculo")
        => IF op'.resultado = "ok"
           THEN LET v == op'.id
                IN /\ ~(/\ vehiculos'[v].estado = "Disponible"
                        /\ tiene_rutas_activas(rutas', v))
                   /\ ~(/\ vehiculos'[v].estado = "En Ruta"
                        /\ ~tiene_rutas_activas(rutas', v))
           ELSE vehiculos' = vehiculos]_vars

\* C9: eliminar_vehiculo removes a vehicle that no route references, and
\* fails, leaving the vehicle and every route in place, when a route of any
\* estado references it
C9_EliminarVehiculoSoloSinRutas ==
    [][(Paso("eliminar_vehiculo") /\ op'.id \in DOMAIN vehiculos) =>
        LET v == op'.id
        IN IF rutas_de(rutas, v) = {}
           THEN /\ op'.resultado = "ok"
                /\ v \notin DOMAIN vehiculos'
           ELSE /\ op'.resultado = "error"
                /\ vehiculos' = vehiculos
                /\ rutas' = rutas]_vars

\* C9 witness: the delete was refused for a vehicle whose only route is over
C9_Testigo ==
    /\ op.nombre = "eliminar_vehiculo"
    /\ op.resultado = "error"
    /\ op.id \in DOMAIN vehiculos
    /\ rutas_de(rutas, op.id) # {}
    /\ \A r \in rutas_de(rutas, op.id) : rutas[r].estado = "Completada"

\* C10: from any content of the tables, after one run of
\* validar_estados_consistentes every vehicle with a route 'En curso' is
\* 'En Ruta' and no vehicle without one is
C10_ValidarRestaura ==
    op.nombre = "validar_estados_consistentes" =>
        \A v \in DOMAIN vehiculos :
            /\ tiene_rutas_activas(rutas, v) => vehiculos[v].estado = "En Ruta"
            /\ ~tiene_rutas_activas(rutas, v) => vehiculos[v].estado # "En Ruta"

\* C10 witness: after the sweep one vehicle is 'En Ruta' with its route
\* 'En curso' and another, without such a route, is 'Disponible'
C10_Testigo ==
    /\ op.nombre = "validar_estados_consistentes"
    /\ \E a, b \in DOMAIN vehiculos :
        /\ tiene_rutas_activas(rutas, a)
        /\ vehiculos[a].estado = "En Ruta"
        /\ ~tiene_rutas_activas(rutas, b)
        /\ rutas_de(rutas, b) # {}
        /\ vehiculos[b].estado = "Disponible"

\* C11: validar_estados_consistentes is idempotent: in the state one run
\* produced, from any content of the tables, a second run changes no vehicle
\* (and the sweep never writes a route)
C11_ValidarIdempotente ==
    op.nombre = "validar_estados_consistentes" =>
        corregir_en_ruta(corregir_con_rutas_activas(vehiculos, rutas), rutas)
            = vehiculos

\* C11 witness: after the sweep the fleet holds a vehicle the first pass
\* decides ('En Ruta' with its route 'En curso') and one neither pass touches
\* ('Mantenimiento' with a route that is not 'En curso')
C11_Testigo ==
    /\ op.nombre = "validar_estados_consistentes"
    /\ \E a, b \in DOMAIN vehiculos :
        /\ tiene_rutas_activas(rutas, a)
        /\ vehiculos[a].estado = "En Ruta"
        /\ vehiculos[b].estado = "Mantenimiento"
        /\ rutas_de(rutas, b) # {}

\* C12: a nueva_ruta request naming a vehicle that does not exist or is not
\* 'Disponible', and an editar_ruta request naming one that does not exist or
\* is neither 'Disponible' nor 'En Ruta', is rejected and leaves every route
\* and every vehicle as it was
C12_AsignacionRechazada ==
    [][/\ Paso("nueva_ruta") =>
            \A v \in VehIds, e \in EstadosRuta :
                (/\ nueva_ruta(v, e)
                 /\ (\/ v \notin DOMAIN vehiculos
                     \/ vehiculos[v].estado # "Disponible"))
                => /\ op'.resultado = "error"
                   /\ rutas' = rutas
                   /\ vehiculos' = vehiculos
       /\ Paso("editar_ruta") =>
            \A r \in RutaIds, v \in VehIds, e \in EstadosRuta :
                (/\ editar_ruta(r, v, e)
                 /\ (\/ v \notin DOMAIN vehiculos
                     \/ vehiculos[v].estado \notin {"Disponible", "En Ruta"}))
                => /\ op'.resultado = "error"
                   /\ rutas' = rutas
                   /\ vehiculos' = vehiculos]_vars

\* C12 witness: a route was refused while the only vehicle on record is in
\* 'Mantenimiento', and no route was created
C12_Testigo ==
    /\ op.nombre = "nueva_ruta"
    /\ op.resultado = "error"
    /\ rutas = <<>>
    /\ \E v \in DOMAIN vehiculos : vehiculos[v].estado = "Mantenimiento"

C14_IniciarYCompletar ==
    [][/\ (Paso("iniciar_ruta") /\ op'.resultado = "ok") =>
            LET r == op'.id
                v == rutas[r].vehiculo_id
            IN /\ rutas[r].estado = "Programada"
               /\ rutas'[r].estado = "En curso"
               /\ rutas'[r].fecha_inicio # NULL
               /\ rutas'[r].fecha_inicio = ahora'
               /\ rutas'[r].vehiculo_id = v
               /\ v # NULL => vehiculos'[v].estado = "En Ruta"
       /\ (/\ Paso("completar_ruta") /\ op'.resultado = "ok"
           /\ op = Resultado("iniciar_ruta", op'.id, "ok")) =>
            LET r == op'.id
                v == rutas[r].vehiculo_id
            IN /\ rutas'[r].estado = "Completada"
               /\ rutas'[r].fecha_fin # NULL
               /\ rutas'[r].fecha_fin = ahora'
               /\ (v # NULL /\ rutas_de(rutas, v) = {r})
                  => vehiculos'[v].estado = "Disponible"]_vars

\* C14 witness: the single route of a vehicle was started and completed, and
\* the vehicle is 'Disponible' again
C14_Testigo ==
    /\ op.nombre = "completar_ruta"
    /\ op.resultado = "ok"
    /\ op.id \in DOMAIN rutas
    /\ rutas[op.id].estado = "Completada"
    /\ rutas[op.id].fecha_inicio # NULL
    /\ rutas[op.id].fecha_fin # NULL
    /\ \E v \in DOMAIN vehiculos :
        /\ rutas_de(rutas, v) = {op.id}
        /\ vehiculos[v].estado = "Disponible"

\* C15: completar_ruta on a route that is not 'En curso' fails and leaves the
\* route's estado and fecha_fin and its vehicle's estado as they were
C15_CompletarRechazada ==
    [][Paso("completar_ruta") =>
        LET r == op'.id
            v == rutas[r].vehiculo_id
        IN rutas[r].estado # "En curso"
           => /\ op'.resultado = "error"
              /\ r \in DOMAIN rutas'
              /\ rutas'[r].estado = rutas[r].estado
              /\ rutas'[r].fecha_fin = rutas[r].fecha_fin
              /\ (v # NULL => /\ v \in DOMAIN vehiculos'
                              /\ vehiculos'[v].estado = vehiculos[v].estado)]_vars

\* C15 witness: completar_ruta was refused on a 'Programada' route whose
\* vehicle is in 'Mantenimiento', and nothing was written
C15_Testigo ==
    /\ op.nombre = "completar_ruta"
    /\ op.resultado = "error"
    /\ op.id \in DOMAIN rutas
    /\ rutas[op.id].estado = "Programada"
    /\ rutas[op.id].fecha_fin = NULL
    /\ \E v \in DOMAIN vehiculos :
        /\ rutas[op.id].vehiculo_id = v
        /\ vehiculos[v].estado = "Mantenimiento"

\* C16: every route completar_ruta has completed has fecha_inicio and
\* fecha_fin set, with fecha_fin not before fecha_inicio, however the route
\* came to be 'En curso'
C16_FinNoAntesDeInicio ==
    [][(Paso("completar_ruta") /\ op'.resultado = "ok") =>
        LET r == op'.id
        IN /\ rutas'[r].fecha_inicio # NULL
           /\ rutas'[r].fecha_fin # NULL
           /\ rutas'[r].fecha_fin >= rutas'[r].fecha_inicio]_vars

\* C17: a route just created is 'Programada', with or without a vehicle
C17_NuevaRutaProgramada ==
    [][(Paso("nueva_ruta") /\ op'.resultado = "ok") =>
        /\ op'.id \in DOMAIN rutas' \ DOMAIN rutas
        /\ rutas'[op'.id].estado = "Programada"]_vars

\* C18: no two vehicles on record have the same upper-cased, trimmed placa,
\* and creating a vehicle or changing a placa, through the forms or the
\* model, to a text whose upper-cased, trimmed form another vehicle holds
\* fails and stores nothing
C18_PlacaUnica ==
    [][/\ \A a, b \in DOMAIN vehiculos' :
            a # b => placa_upper(vehiculos'[a].placa)
                        # placa_upper(vehiculos'[b].placa)
       /\ (Paso("nuevo_vehiculo") \/ Paso("Vehiculo")) =>
            \A p \in PlacasTexto, e \in EstadosVehiculo :
                (/\ nuevo_vehiculo(p, e) \/ Vehiculo(p, e)
                 /\ \E v \in DOMAIN vehiculos :
                        placa_upper(vehiculos[v].placa) = placa_upper(p))
                => op'.resultado = "error" /\ vehiculos' = vehiculos
       /\ (Paso("editar_vehiculo") \/ Paso("set_placa")) =>
            \A p \in PlacasTexto, e \in EstadosVehiculo :
                (/\ editar_vehiculo(op'.id, p, e) \/ set_placa(op'.id, p)
                 /\ \E v \in DOMAIN vehiculos \ {op'.id} :
                        placa_upper(vehiculos[v].placa) = placa_upper(p))
                => op'.resultado = "error" /\ vehiculos' = vehiculos]_vars

\* C18 witness: with two vehicles on record, an edit of one of them was
\* refused and the two keep different plates
C18_Testigo ==
    /\ op.nombre = "editar_vehiculo"
    /\ op.resultado = "error"
    /\ Cardinality(DOMAIN vehiculos) = 2
    /\ \A a, b \in DOMAIN vehiculos : a # b => vehiculos[a].placa # vehiculos[b].placa

\* C20: every placa on record has 6 to 8 characters and is upper-cased and
\* trimmed, and a text whose upper-cased, trimmed form has fewer than 6 or
\* more than 8 characters is rejected and leaves the vehicles as they were
C20_PlacaNormalizada ==
    [][/\ \A v \in DOMAIN vehiculos' :
            /\ Len(vehiculos'[v].placa) >= PlacaMin
            /\ Len(vehiculos'[v].placa) <= PlacaMax
            /\ vehiculos'[v].placa = placa_upper(vehiculos'[v].placa)
       /\ \A id \in VehIds, p \in PlacasTexto, e \in EstadosVehiculo :
            (/\ \/ nuevo_vehiculo(p, e) \/ Vehiculo(p, e)
                \/ editar_vehiculo(id, p, e) \/ set_placa(id, p)
             /\ \/ Len(placa_upper(p)) < PlacaMin
                \/ Len(placa_upper(p)) > PlacaMax)
            => op'.resultado = "error" /\ vehiculos' = vehiculos]_vars

\* C19: a handler that fails leaves routes and vehicles as they were, and one
\* that succeeds stores the route's estado together with the vehicle estado
\* that goes with it: a route 'En curso' has its vehicle 'En Ruta', and the
\* vehicle of a route that was 'En curso', left without any route 'En curso',
\* is not 'En Ruta' any more
C19_RutaYVehiculoJuntos ==
    [][(\/ Paso("nueva_ruta") \/ Paso("editar_ruta") \/ Paso("eliminar_ruta")
        \/ Paso("editar_vehiculo") \/ Paso("eliminar_vehiculo")
        \/ Paso("validar_estados_consistentes")) =>
        IF op'.resultado = "error"
        THEN rutas' = rutas /\ vehiculos' = vehiculos
        ELSE (Paso("nueva_ruta") \/ Paso("editar_ruta") \/ Paso("eliminar_ruta")) =>
            LET r == op'.id
                antes == IF r \in DOMAIN rutas THEN rutas[r].vehiculo_id ELSE NULL
                ahora_v == IF r \in DOMAIN rutas' THEN rutas'[r].vehiculo_id ELSE NULL
            IN /\ (ahora_v # NULL /\ rutas'[r].estado = "En curso")
                  => vehiculos'[ahora_v].estado = "En Ruta"
               /\ (/\ antes # NULL
                   /\ rutas[r].estado = "En curso"
                   /\ ~tiene_rutas_activas(rutas', antes))
                  => vehiculos'[antes].estado # "En Ruta"]_vars

\* C21: validar_estados_consistentes changes no route, and changes the
\* estado of a vehicle only if the vehicle had a route 'En curso' without
\* being 'En Ruta' or was 'En Ruta' without a route 'En curso'; it changes
\* nothing else of any vehicle
C21_ValidarSoloCorrige ==
    [][Paso("validar_estados_consistentes") =>
        /\ rutas' = rutas
        /\ DOMAIN vehiculos' = DOMAIN vehiculos
        /\ \A v \in DOMAIN vehiculos :
            /\ vehiculos'[v].placa = vehiculos[v].placa
            /\ vehiculos'[v].estado # vehiculos[v].estado
               => \/ /\ tiene_rutas_activas(rutas, v)
                     /\ vehiculos[v].estado # "En Ruta"
                  \/ /\ ~tiene_rutas_activas(rutas, v)
                     /\ vehiculos[v].estado = "En Ruta"]_vars

\* C21 witness: after the sweep a vehicle without routes is in
\* 'Mantenimiento' and another, whose route is 'Programada', is 'Disponible'
C21_Testigo ==
    /\ op.nombre = "validar_estados_consistentes"
    /\ \E a, b \in DOMAIN vehiculos :
        /\ vehiculos[a].estado = "Mantenimiento"
        /\ rutas_de(rutas, a) = {}
        /\ vehiculos[b].estado = "Disponible"
        /\ \E r \in rutas_de(rutas, b) : rutas[r].estado = "Programada"

\* C22: duracion_real is defined exactly when fecha_inicio and fecha_fin are
\* both set, and velocidad_promedio exactly when duracion_real is, a duracion
\* of 0 minutes included
C22_DerivadosDefinidos ==
    op.nombre = "leer_duracion" =>
        LET ruta == rutas[op.id]
        IN /\ op.duracion_real # None
                <=> (ruta.fecha_inicio # NULL /\ ruta.fecha_fin # NULL)
           /\ op.velocidad_promedio # None <=> op.duracion_real # None

\* C22 amended: duracion_real is defined exactly when fecha_inicio and
\* fecha_fin are both set, and velocidad_promedio exactly when duracion_real
\* is defined and is not 0 minutes
C22_DerivadosDefinidosSalvoCero ==
    op.nombre = "leer_duracion" =>
        LET ruta == rutas[op.id]
        IN /\ op.duracion_real # None
                <=> (ruta.fecha_inicio # NULL /\ ruta.fecha_fin # NULL)
           /\ op.velocidad_promedio # None
                <=> (op.duracion_real # None /\ op.duracion_real # <<0>>)

\* C22 witness: a route finished 30 seconds after it started has a duracion
\* of 0 minutes and no velocidad
C22_Testigo ==
    /\ op.nombre = "leer_duracion"
    /\ rutas[op.id].fecha_inicio # NULL
    /\ rutas[op.id].fecha_fin = rutas[op.id].fecha_inicio + 30
    /\ op.duracion_real = <<0>>
    /\ op.velocidad_promedio = None

\* C23: in every reachable state every route 'En curso' has fecha_inicio set
\* and every route 'Completada' has fecha_fin set
C23_FechasSegunEstado ==
    \A r \in DOMAIN rutas :
        /\ rutas[r].estado = "En curso" => rutas[r].fecha_inicio # NULL
        /\ rutas[r].estado = "Completada" => rutas[r].fecha_fin # NULL

\* C24: no route operation takes a vehicle out of 'Mantenimiento'; stated
\* for the two operations that write the vehicle's estado themselves whatever
\* the mapper events do: completing a route and deleting a route leave its
\* vehicle in 'Mantenimiento' if the vehicle was in 'Mantenimiento'
C24_MantenimientoPermanece ==
    [][(/\ Paso("completar_ruta") \/ Paso("eliminar_ruta")
        /\ op'.resultado = "ok") =>
        LET v == rutas[op'.id].vehiculo_id
        IN (v # NULL /\ vehiculos[v].estado = "Mantenimiento")
           => /\ v \in DOMAIN vehiculos'
              /\ vehiculos'[v].estado = "Mantenimiento"]_vars

\* C25: in every state every route names no vehicle or one on record; a
\* vehicle is deleted only when no route names it, and after the deletion no
\* route names it
C25_ReferenciasValidas ==
    [][/\ \A r \in DOMAIN rutas' :
            rutas'[r].vehiculo_id \in {NULL} \cup DOMAIN vehiculos'
       /\ \A v \in DOMAIN vehiculos \ DOMAIN vehiculos' :
            /\ Paso("eliminar_vehiculo")
            /\ rutas_de(rutas, v) = {}
            /\ rutas_de(rutas', v) = {}]_vars

\* C25 witness: the vehicle was deleted after its route had been given up,
\* and the routes left on record name no vehicle
C25_Testigo ==
    /\ op.nombre = "eliminar_vehiculo"
    /\ op.resultado = "ok"
    /\ op.id \notin DOMAIN vehiculos
    /\ rutas # <<>>
    /\ \A r \in DOMAIN rutas : rutas[r].vehiculo_id = NULL
    /\ \E r \in DOMAIN rutas : rutas[r].estado = "Completada"

====
